---- MODULE Spec2Model ----
(***************************************************************************)
(* Dixa-SLA: the windowed acquisition pipeline of export_dixa_refresh.py   *)
(* (date windows, bulk fetch with retry/backoff, detail enrichment) and    *)
(* the single-request pipeline of export_dixa_prev_month_exports.py.       *)
(*                                                                         *)
(* Dates are day ordinals.  Durations are integers in ticks of 1/64 s, so  *)
(* that the defaults (7.5 s) and five multiplications by 1.5 stay exact.   *)
(* Python None is the integer None; a dict key that is absent is NoKey.    *)
(***************************************************************************)
EXTENDS Integers, Sequences, FiniteSets, TLC

\* ---------------------------------------------------------------- bounds
MaxDay == 5
MaxStep == 3

\* ------------------------------------------------------ program constants
MaxRetries == 6
DefaultBaseDelay == 480
\* time.sleep(0.1) after a detail lookup, in milliseconds
DetailDelayMs == 100

None == 0 - 1
NoKey == 0 - 2

Sec(n) == 64 * n
DelayCap == Sec(60)
RetryAfterValue == Sec(90)

Min(a, b) == IF a <= b THEN a ELSE b
Max(a, b) == IF a >= b THEN a ELSE b

\* Values of DIXA_BASE_DELAY (a duration, so never negative): zero, the
\* default 7.5 s, 30 s, the cap itself and a value above the cap.
BaseDelays == {0, DefaultBaseDelay, Sec(30), Sec(60), Sec(100)}

VARIABLES
    pc,          \* position of the running program
    error,       \* the exception that ended the run ("" while none)
    BASE_DELAY,  \* DIXA_BASE_DELAY, in ticks
    WINDOW_DAYS, \* DIXA_WINDOW_DAYS / step_days
    start_d, end_d,      \* the requested range
    write_daily, single_file,   \* args.daily_files, args.single_file
    gen,         \* date_windows generator: "new", "yielded", "done"
    cur,         \* date_windows: cur
    w_start, w_end,      \* the window last yielded
    windows,     \* every window yielded so far, in order
    delay, tries,        \* fetch_exports_window locals
    nreq,        \* requests issued by the current fetch_exports_window call
    sleeps,      \* time.sleep calls of the current call, in order:
                 \* [after |-> status, src |-> "delay" or "header", wait |-> ticks]
    last_status, \* what the last request of the current call met
    rows_raw,    \* value returned by the bulk fetch: [t |-> type, v |-> items]
    rows, idx,   \* main: rows of the window, position of the detail loop
    all_rows,    \* main: rows accumulated for the single file
    processed,   \* main: windows started
    requested,   \* TRUE once the run has issued an HTTP request
    det_last,    \* outcome of the last detail lookup
    daily_files, \* daily-files mode: the id lists of the files written, in order
    export,      \* single-file mode: the rows of conversations_ytd.csv
    body,        \* body of the 200 answer the current call received
    det_log,     \* ids the detail endpoint was asked for, in request order
    det_sleep,   \* milliseconds slept since the last detail lookup (None:
                 \* no lookup since the last bulk request)
    detail,      \* "data" object of the last detail lookup that enriched
    removed,     \* rows drop_duplicates removed (None before it ran)
    gave_up,     \* TRUE once a window was abandoned (lines 300-306)
    pager,       \* the cursor paginator of the search endpoint (section 4.3)
    outcome      \* what the run printed last: "", "no_conversations", "summary", "daily"

vars == <<pc, error, BASE_DELAY, WINDOW_DAYS, start_d, end_d, write_daily,
          single_file, gen, cur, w_start, w_end, windows, delay, tries, nreq,
          sleeps, last_status, rows_raw, rows, idx, all_rows, processed, requested,
          det_last, daily_files, export, body, det_log, det_sleep, detail,
          outcome, removed, gave_up, pager>>

config == <<BASE_DELAY, WINDOW_DAYS, start_d, end_d, write_daily, single_file>>
genvars == <<gen, cur, w_start, w_end, windows>>
fetchvars == <<delay, tries, nreq, sleeps, last_status>>
rowvars == <<rows, idx, all_rows, det_last, daily_files, export>>
detvars == <<det_log, det_sleep, detail>>

\* ------------------------------------------------------------ date_windows
\* the clamp to end_d forgotten
WinEnd_NoClamp(c, e, step) == c + (step - 1)

\* win_end = min(end_d, cur + timedelta(days=step_days - 1))
WinEnd(c, e, step) == Min(e, c + (step - 1))

\* One resumption of the generator: the first one starts at start_d, a later
\* one continues after the yield with cur = win_end + 1; then the loop test.
GenCur == IF gen = "new" THEN start_d ELSE w_end + 1

GenResume ==
    /\ gen \in {"new", "yielded"}
    /\ cur' = GenCur
    /\ IF GenCur <= end_d
         THEN /\ gen' = "yielded"
              /\ w_start' = GenCur
              /\ w_end' = WinEnd(GenCur, end_d, WINDOW_DAYS)
              /\ windows' = Append(windows, <<GenCur, WinEnd(GenCur, end_d, WINDOW_DAYS)>>)
         ELSE /\ gen' = "done"
              /\ UNCHANGED <<w_start, w_end, windows>>

\* A direct consumer of date_windows(start_d, end_d, WINDOW_DAYS).
PlanNext ==
    /\ pc = "plan"
    /\ GenResume
    /\ UNCHANGED <<pc, error, config, detvars, fetchvars, rows_raw, rowvars, processed,
                   requested, body, outcome, removed, gave_up, pager>>

NoBody == [t |-> "unset", v |-> <<>>]
NoPager == [backend |-> <<>>, stamped |-> TRUE, cursor |-> 0, page |-> <<>>,
            out |-> <<>>, requests |-> 0, done |-> FALSE]
NoDetail == [answeredAt |-> None, assignment |-> "unset", reason |-> "None",
             assignedAt |-> None]

Days == 0 .. MaxDay
Steps == 1 .. MaxStep

InitCommon ==
    /\ error = ""
    /\ gen = "new" /\ cur = None /\ w_start = None /\ w_end = None
    /\ windows = <<>>
    /\ delay = None /\ tries = 0 /\ nreq = 0 /\ sleeps = <<>> /\ last_status = ""
    /\ rows_raw = NoBody
    /\ rows = <<>> /\ idx = 0 /\ all_rows = <<>> /\ processed = 0
    /\ requested = FALSE /\ det_last = "" /\ outcome = ""
    /\ daily_files = <<>> /\ export = <<>> /\ body = NoBody
    /\ det_log = <<>> /\ det_sleep = None /\ detail = NoDetail
    /\ removed = None /\ gave_up = FALSE
    /\ pager = NoPager

InitPlan ==
    /\ pc = "plan"
    /\ BASE_DELAY = DefaultBaseDelay
    /\ WINDOW_DAYS \in Steps
    /\ start_d \in Days /\ end_d \in Days
    /\ write_daily = FALSE /\ single_file = TRUE
    /\ InitCommon

NextPlan == PlanNext

SpecPlan == InitPlan /\ [][NextPlan]_vars

\* ------------------------------------------------------------ bulk endpoint
\* RawRecord of the bulk endpoint: id (0 is a missing id) and the timestamps
\* in epoch milliseconds.  Record 2 was never queued nor answered.
RawRec(i) ==
    [id |-> i, created_at |-> 1000,
     queued_at |-> IF i = 2 THEN None ELSE 2000,
     assigned_at |-> IF i = 2 THEN None ELSE 30500,
     closed_at |-> 90000]

\* The record lists a window of the synthetic backend may hold: nothing, one
\* record, two records, the same record twice, a record without id.
RawLists == {<<>>, <<RawRec(1)>>, <<RawRec(1), RawRec(2)>>,
             <<RawRec(1), RawRec(1)>>, <<RawRec(0)>>}

\* Bodies of a 200 answer of the bulk endpoint.
BulkBodies ==
    {[t |-> k, v |-> <<>>] : k \in {"notjson", "scalar", "list_of_scalars",
                                     "obj_nodata", "obj_data_null",
                                     "obj_data_obj", "obj_data_scalar"}}
    \cup {[t |-> k, v |-> l] : k \in {"list", "obj_data_list"}, l \in RawLists}

EmptyList == [t |-> "list", v |-> <<>>]

\* r.json() and the return statement, lines 278-282.  "raise" is the
\* AttributeError of data.get on a value that is neither list nor dict.
ParseBody(b) ==
    CASE b.t = "notjson"         -> EmptyList
      [] b.t = "scalar"          -> [t |-> "raise", v |-> <<>>]
      [] b.t = "list"            -> [t |-> "list", v |-> b.v]
      [] b.t = "list_of_scalars" -> [t |-> "badlist", v |-> <<>>]
      [] b.t = "obj_nodata"      -> EmptyList
      [] b.t = "obj_data_list"   -> [t |-> "list", v |-> b.v]
      [] b.t = "obj_data_null"   -> [t |-> "None", v |-> <<>>]
      [] b.t = "obj_data_obj"    -> [t |-> "dict", v |-> <<>>]
      [] b.t = "obj_data_scalar" -> [t |-> "int", v |-> <<>>]

\* the cap of 60 s forgotten
GrowDelay_NoCap(d) == (d * 3) \div 2

\* min(delay * 1.5, 60)
GrowDelay(d) == Min((d * 3) \div 2, DelayCap)

\* wait = float(ra) if ra else delay (delay too when float() fails); then
\* wait = max(wait, BASE_DELAY)
Wait429(ra, d, base) == Max(IF ra = "number" THEN RetryAfterValue ELSE d, base)

\* the argument of time.sleep after a 5xx answer
Wait5xx(d, base) == d

\* one attempt too many
GiveUp_OffByOne(t) == t > MaxRetries

\* if tries >= max_retries
GiveUp(t) == t >= MaxRetries

Request(status) ==
    /\ nreq' = nreq + 1
    /\ requested' = TRUE
    /\ last_status' = status

Raise(e) ==
    /\ pc' = "fatal"
    /\ error' = e

\* What requests.get raising (connection error, timeout) does to the call:
\* no handler in fetch_exports_window or main, so it reaches __main__.
OnConnError == Raise("ConnectionError")

FetchConnError ==
    /\ pc = "fetch"
    /\ Request("conn")
    /\ OnConnError
    /\ UNCHANGED <<config, detvars, genvars, delay, tries, sleeps, rows_raw, rowvars,
                   processed, body, outcome, removed, gave_up, pager>>

Fetch200 ==
    /\ pc = "fetch"
    /\ \E b \in BulkBodies :
         /\ Request("200")
         /\ body' = b
         /\ IF ParseBody(b).t = "raise"
              THEN Raise("AttributeError") /\ UNCHANGED rows_raw
              ELSE pc' = "returned" /\ rows_raw' = ParseBody(b) /\ UNCHANGED error
    /\ UNCHANGED <<config, detvars, genvars, delay, tries, sleeps, rowvars, processed,
                   outcome, removed, gave_up, pager>>

\* The Retry-After header is absent, a number of seconds, or text float()
\* rejects.
Fetch429 ==
    /\ pc = "fetch"
    /\ \E ra \in {"absent", "number", "text"} :
         /\ Request("429")
         /\ sleeps' = Append(sleeps, [after |-> "429",
                                      src |-> IF ra = "number" THEN "header" ELSE "delay",
                                      wait |-> Wait429(ra, delay, BASE_DELAY)])
         /\ tries' = tries + 1
         /\ delay' = GrowDelay(delay)
         /\ UNCHANGED error
         /\ IF GiveUp(tries + 1)
              THEN pc' = "returned" /\ rows_raw' = EmptyList
              ELSE UNCHANGED <<pc, rows_raw>>
    /\ UNCHANGED <<config, detvars, genvars, rowvars, processed, body, outcome, removed, gave_up, pager>>

\* variant: server errors are counted on their own, apart from the 429s
Fetch5xx_OwnCounter ==
    /\ pc = "fetch"
    /\ Request("5xx")
    /\ sleeps' = Append(sleeps, [after |-> "5xx", src |-> "delay",
                                 wait |-> Wait5xx(delay, BASE_DELAY)])
    /\ tries' = tries + 1
    /\ UNCHANGED error
    /\ IF GiveUp(Len(SelectSeq(sleeps', LAMBDA e : e.after = "5xx")))
         THEN pc' = "returned" /\ rows_raw' = EmptyList
         ELSE UNCHANGED <<pc, rows_raw>>
    /\ UNCHANGED <<config, detvars, genvars, delay, rowvars, processed, body, outcome, removed, gave_up, pager>>

\* A 5xx answer: lines 298-304.
Fetch5xx ==
    /\ pc = "fetch"
    /\ Request("5xx")
    /\ sleeps' = Append(sleeps, [after |-> "5xx", src |-> "delay",
                                 wait |-> Wait5xx(delay, BASE_DELAY)])
    /\ tries' = tries + 1
    /\ UNCHANGED error
    /\ IF GiveUp(tries + 1)
         THEN pc' = "returned" /\ rows_raw' = EmptyList
         ELSE UNCHANGED <<pc, rows_raw>>
    /\ UNCHANGED <<config, detvars, genvars, delay, rowvars, processed, body, outcome, removed, gave_up, pager>>

\* a client error retried like a server error
FetchOther_Retry ==
    /\ pc = "fetch"
    /\ Request("4xx")
    /\ sleeps' = Append(sleeps, [after |-> "4xx", src |-> "delay", wait |-> delay])
    /\ tries' = tries + 1
    /\ IF GiveUp(tries + 1)
         THEN pc' = "returned" /\ rows_raw' = EmptyList
         ELSE UNCHANGED <<pc, rows_raw>>
    /\ UNCHANGED <<error, config, detvars, genvars, delay, rowvars, processed, body, outcome, removed, gave_up, pager>>

\* any other status (4xx other than 429, 3xx, ...): lines 305-306
FetchOther ==
    /\ pc = "fetch"
    /\ Request("4xx")
    /\ pc' = "returned"
    /\ rows_raw' = EmptyList
    /\ UNCHANGED <<error, config, detvars, genvars, delay, tries, sleeps, rowvars,
                   processed, body, outcome, removed, gave_up, pager>>

\* One call fetch_exports_window(w_start, w_end) on its own, for every
\* configured base delay.
InitFetch ==
    /\ pc = "fetch"
    /\ BASE_DELAY \in BaseDelays
    /\ WINDOW_DAYS = 1
    /\ start_d = 0 /\ end_d = 0
    /\ write_daily = FALSE /\ single_file = TRUE
    /\ error = ""
    /\ gen = "yielded" /\ cur = 0 /\ w_start = 0 /\ w_end = 0
    /\ windows = <<<<0, 0>>>>
    /\ delay = BASE_DELAY /\ tries = 0 /\ nreq = 0 /\ sleeps = <<>>
    /\ last_status = ""
    /\ rows_raw = NoBody
    /\ rows = <<>> /\ idx = 0 /\ all_rows = <<>> /\ processed = 1
    /\ requested = FALSE /\ det_last = "" /\ outcome = ""
    /\ daily_files = <<>> /\ export = <<>> /\ body = NoBody
    /\ det_log = <<>> /\ det_sleep = None /\ detail = NoDetail
    /\ removed = None /\ gave_up = FALSE
    /\ pager = NoPager

NextFetch == FetchConnError \/ Fetch200 \/ Fetch429 \/ Fetch5xx \/ FetchOther

SpecFetch == InitFetch /\ [][NextFetch]_vars

\* The call is a loop of blocking requests: while it has not returned, the
\* next request is made and answered.
FairSpecFetch == SpecFetch /\ WF_vars(NextFetch)

\* ------------------------------------------------------- main, refresh
\* _ms_to_iso: the instant formatted to whole seconds ("%Y-%m-%dT%H:%M:%SZ"),
\* held as seconds since the epoch.
MsToIso(ms) == IF ms = None THEN None ELSE ms \div 1000

\* map_row: the normalized row with the four metrics of the bulk timestamps.
\* assigned_at is the column of that name (the bulk assignment instant);
\* assignedAt and reason stand for the columns "assignment.assignedAt" and
\* "assignment.reason", which do not exist before enrichment.
MapRow(rec) ==
    [id |-> rec.id,
     createdAt |-> MsToIso(rec.created_at),
     queuedAt |-> MsToIso(rec.queued_at),
     assigned_at |-> MsToIso(rec.assigned_at),
     answeredAt |-> MsToIso(rec.assigned_at),
     closedAt |-> MsToIso(rec.closed_at),
     assignedAt |-> NoKey,
     reason |-> "NoKey",
     AnsweredWithin1Min |-> /\ rec.created_at # None
                            /\ rec.assigned_at # None
                            /\ rec.assigned_at - rec.created_at <= 60000,
     TakenFromQueue |-> (rec.queued_at # None /\ rec.assigned_at # None),
     TakenFromForward |-> (rec.queued_at = None /\ rec.assigned_at # None),
     RejectedOrForwarded |-> \/ rec.assigned_at = None
                             \/ (rec.queued_at = None /\ rec.assigned_at # None)]

\* variant: `if rows_raw == []`, which lets None through to the loop
Falsy_EmptyListOnly(ret) == ret.t = "list" /\ ret.v = <<>>

\* `if not rows_raw`
Falsy(ret) == ret.t = "None" \/ (ret.t = "list" /\ ret.v = <<>>)

\* args after determine_range_from_cli: single_file is forced on when neither
\* flag is given, so one of the two always holds.
Modes == {<<TRUE, FALSE>>, <<TRUE, TRUE>>, <<FALSE, TRUE>>}

write_single == single_file \/ ~write_daily

\* Runs of one or two windows, and ranges whose end is before their start.
RunDays == 0 .. 1
RunSteps == 1 .. 2

Init ==
    /\ pc = "cli"
    /\ BASE_DELAY = DefaultBaseDelay
    /\ WINDOW_DAYS \in RunSteps
    /\ start_d \in RunDays /\ end_d \in RunDays
    /\ \E m \in Modes : single_file = m[1] /\ write_daily = m[2]
    /\ InitCommon

\* determine_range_from_cli, lines 140-141, then lines 393-414.
DetermineRange ==
    /\ pc = "cli"
    /\ IF end_d < start_d
         THEN Raise("ValueError")
         ELSE pc' = "for" /\ UNCHANGED error
    /\ UNCHANGED <<config, detvars, genvars, fetchvars, rows_raw, rowvars, processed,
                   requested, body, outcome, removed, gave_up, pager>>

\* The for statement of line 416 takes the next window; lines 417-420 and the
\* entry of fetch_exports_window (lines 263-274) follow.
ForWindow ==
    /\ pc = "for"
    /\ GenResume
    /\ IF gen' = "done"
         THEN /\ pc' = "after_loop"
              /\ UNCHANGED <<fetchvars, processed>>
         ELSE /\ pc' = "fetch"
              /\ processed' = processed + 1
              /\ delay' = BASE_DELAY /\ tries' = 0 /\ nreq' = 0
              /\ sleeps' = <<>> /\ last_status' = ""
    /\ UNCHANGED <<error, config, detvars, rows_raw, rowvars, requested, body, outcome, removed, gave_up, pager>>

\* Lines 423-432 with the default channel "" (no filter).  Iterating a dict
\* gives its keys and map_row fails on the first one; an int is not iterable.
ProcessRows ==
    /\ pc = "returned"
    /\ delay' = None /\ tries' = 0 /\ nreq' = 0 /\ sleeps' = <<>> /\ last_status' = ""
    /\ rows_raw' = NoBody /\ body' = NoBody
    /\ gave_up' = (gave_up \/ last_status # "200")
    /\ IF Falsy(rows_raw)
         THEN pc' = "for" /\ UNCHANGED <<error, rows, idx>>
         ELSE IF rows_raw.t # "list"
         THEN /\ Raise(IF rows_raw.t = "int" THEN "TypeError" ELSE "AttributeError")
              /\ UNCHANGED <<rows, idx>>
         ELSE /\ pc' = "detail"
              /\ rows' = [i \in DOMAIN rows_raw.v |-> MapRow(rows_raw.v[i])]
              /\ idx' = 1
              /\ UNCHANGED error
    /\ UNCHANGED <<config, detvars, genvars, all_rows, det_last, daily_files, export,
                   processed, requested, outcome, removed, pager>>

\* ------------------------------------------------------- detail endpoint
\* fetch_detail returns None: connection error, non-200 status, a body that
\* is not JSON, JSON that is no object (j.get raises inside the try), an
\* object without "data" or with "data": null.  "data_empty" is "data": {},
\* which fetch_detail returns and `if not det` skips.
DetailNoneOutcomes == {"conn", "non200", "notjson", "json_nondict", "no_data",
                       "data_null", "data_empty"}

\* "data" objects of the detail endpoint.  assignment is "dict", "absent"
\* or "nondict" (a non-empty string).
DetailData ==
    {[answeredAt |-> 31, assignment |-> "dict", reason |-> "queue", assignedAt |-> 29],
     [answeredAt |-> None, assignment |-> "absent", reason |-> "None", assignedAt |-> None],
     [answeredAt |-> 31, assignment |-> "nondict", reason |-> "None", assignedAt |-> None]}

\* Lines 444-451 for a detail whose assignment is a dict or absent.
Enrich(r, d) ==
    [r EXCEPT !.answeredAt = IF d.answeredAt # None THEN d.answeredAt ELSE @,
              !.assignedAt = IF d.assignment = "dict" THEN d.assignedAt ELSE None,
              !.reason = IF d.assignment = "dict" THEN d.reason ELSE "None"]

\* What a lookup that yields no enrichment does to the row: `continue`.
NoEnrichment(r) == r

InDetail == pc = "detail" /\ idx <= Len(rows)

\* `if not conv_id: continue`
DetailSkip ==
    /\ InDetail
    /\ rows[idx].id = 0
    /\ idx' = idx + 1
    /\ det_last' = "skipped"
    /\ UNCHANGED <<pc, error, config, detvars, genvars, fetchvars, rows_raw, rows,
                   all_rows, daily_files, export, processed, requested, body,
                   outcome, removed, gave_up, pager>>

\* variant: a lookup that returned no enrichment is issued a second time
DetailNone_Repeat ==
    /\ InDetail
    /\ rows[idx].id # 0
    /\ \E o \in DetailNoneOutcomes : det_last' = o
    /\ requested' = TRUE
    /\ det_log' = det_log \o <<rows[idx].id, rows[idx].id>>
    /\ rows' = [rows EXCEPT ![idx] = NoEnrichment(@)]
    /\ idx' = idx + 1
    /\ det_sleep' = 0
    /\ detail' = NoDetail
    /\ UNCHANGED <<pc, error, config, genvars, fetchvars, rows_raw, all_rows,
                   daily_files, export, processed, body, outcome, removed, gave_up, pager>>

\* fetch_detail returned None (lines 201-210: connection error, non-200,
\* no JSON, no "data") or a falsy "data": `if not det: continue` goes to
\* the next row without reaching the time.sleep(0.1) of line 452.
DetailNone ==
    /\ InDetail
    /\ rows[idx].id # 0
    /\ \E o \in DetailNoneOutcomes : det_last' = o
    /\ requested' = TRUE
    /\ det_log' = Append(det_log, rows[idx].id)
    /\ rows' = [rows EXCEPT ![idx] = NoEnrichment(@)]
    /\ idx' = idx + 1
    /\ det_sleep' = 0
    /\ detail' = NoDetail
    /\ UNCHANGED <<pc, error, config, genvars, fetchvars, rows_raw, all_rows,
                   daily_files, export, processed, body, outcome, removed, gave_up, pager>>

\* "data" is a non-empty string, a number or a list: det.get of line 444
\* raises AttributeError outside any try.  A truthy assignment that is no
\* dict does the same at line 448, after line 446 has run.
DetailRaise ==
    /\ InDetail
    /\ rows[idx].id # 0
    /\ requested' = TRUE
    /\ \/ /\ det_last' = "data_scalar"
          /\ UNCHANGED rows
       \/ \E d \in {x \in DetailData : x.assignment = "nondict"} :
          /\ det_last' = "assignment_nondict"
          /\ rows' = [rows EXCEPT ![idx].answeredAt =
                         IF d.answeredAt # None THEN d.answeredAt ELSE @]
    /\ Raise("AttributeError")
    /\ det_log' = Append(det_log, rows[idx].id)
    /\ det_sleep' = 0
    /\ detail' = NoDetail
    /\ UNCHANGED <<config, genvars, fetchvars, rows_raw, idx, all_rows,
                   daily_files, export, processed, body, outcome, removed, gave_up, pager>>

DetailEnrich ==
    /\ InDetail
    /\ rows[idx].id # 0
    /\ requested' = TRUE
    /\ \E d \in {x \in DetailData : x.assignment # "nondict"} :
          /\ rows' = [rows EXCEPT ![idx] = Enrich(@, d)]
          /\ detail' = d
    /\ det_log' = Append(det_log, rows[idx].id)
    /\ det_last' = "enriched"
    /\ idx' = idx + 1
    /\ det_sleep' = DetailDelayMs
    /\ UNCHANGED <<pc, error, config, genvars, fetchvars, rows_raw, all_rows,
                   daily_files, export, processed, body, outcome, removed, gave_up, pager>>

Ids(rs) == [i \in DOMAIN rs |-> rs[i].id]

\* variant: the window is closed while rows still await their lookup
WindowEnd_Early ==
    /\ pc = "detail"
    /\ idx >= Len(rows)
    /\ daily_files' = IF write_daily /\ rows # <<>>
                        THEN Append(daily_files, Ids(rows)) ELSE daily_files
    /\ all_rows' = IF write_single /\ rows # <<>> THEN all_rows \o rows ELSE all_rows
    /\ rows' = <<>> /\ idx' = 0 /\ det_last' = ""
    /\ det_sleep' = None /\ detail' = NoDetail
    /\ pc' = "for"
    /\ UNCHANGED <<error, config, det_log, genvars, fetchvars, rows_raw, export,
                   processed, requested, body, outcome, removed, gave_up, pager>>

\* Lines 454-465: the window's file, the accumulation, the pause.
WindowEnd ==
    /\ pc = "detail"
    /\ idx > Len(rows)
    /\ daily_files' = IF write_daily /\ rows # <<>>
                        THEN Append(daily_files, Ids(rows)) ELSE daily_files
    /\ all_rows' = IF write_single /\ rows # <<>> THEN all_rows \o rows ELSE all_rows
    /\ rows' = <<>> /\ idx' = 0 /\ det_last' = ""
    /\ det_sleep' = None /\ detail' = NoDetail
    /\ pc' = "for"
    /\ UNCHANGED <<error, config, det_log, genvars, fetchvars, rows_raw, export,
                   processed, requested, body, outcome, removed, gave_up, pager>>

\* variant: drop_duplicates(subset=["id"], keep="last")
RECURSIVE DropDuplicates_KeepLast(_)
DropDuplicates_KeepLast(rs) ==
    IF rs = <<>> THEN <<>>
    ELSE LET rest == Tail(rs)
         IN  IF \E i \in DOMAIN rest : rest[i].id = Head(rs).id
               THEN DropDuplicates_KeepLast(rest)
               ELSE <<Head(rs)>> \o DropDuplicates_KeepLast(rest)

\* df.drop_duplicates(subset=["id"]): the first row of every id, in order.
RECURSIVE DropDuplicates(_)
DropDuplicates(rs) ==
    IF rs = <<>> THEN <<>>
    ELSE LET front == SubSeq(rs, 1, Len(rs) - 1)
             last == rs[Len(rs)]
         IN  IF \E i \in DOMAIN front : front[i].id = last.id
               THEN DropDuplicates(front)
               ELSE Append(DropDuplicates(front), last)

\* pd.to_datetime(..., errors="coerce") of a column: a missing key and None
\* both give NaT.
ToDatetime(x) == IF x \in {None, NoKey} THEN None ELSE x

\* (a - b).dt.total_seconds(): NaN, the empty set, when either side is NaT
Diff(a, b) == IF a = None \/ b = None THEN {} ELSE {a - b}

\* Series.combine_first
CombineFirst(a, b) == IF a # None THEN a ELSE b

\* variant: comparison of the reason as written, without lower-casing
Lower_Identity(s) == s

\* str.lower() on the reasons the backend is taken to send
Lower(s) ==
    CASE s = "QUEUE" -> "queue"
      [] s = "Forward" -> "forward"
      [] OTHER -> s

\* df["assignment.reason"].fillna("") (line 335), or the "" of line 339 when
\* no row of the frame has the column
FillNa(reason) == IF reason \in {"NoKey", "None"} THEN "" ELSE reason

\* compute_columns (lines 309-384) on one row of a non-empty frame.  Every
\* column is computed row by row; a column that no row of the frame has
\* reads as NaN, like a missing value of an existing column.
ComputeRow(r) ==
    LET created == ToDatetime(r.createdAt)
        answered == ToDatetime(r.answeredAt)
        assigned_plain == ToDatetime(r.assigned_at)
        closed == ToDatetime(r.closedAt)
        within_1m == /\ created # None /\ answered # None
                     /\ answered - created <= 60
        assignment_reason_lower == Lower(FillNa(r.reason))
        primary == Diff(closed, answered)
        call_type == IF assignment_reason_lower = "queue" THEN "queue"
                     ELSE IF assignment_reason_lower = "forward" THEN "forward"
                     ELSE "direct"
        fair == IF "FairTTASeconds" \in DOMAIN r THEN r.FairTTASeconds ELSE {}
        queued == ToDatetime(r.queuedAt)
        assigned_detail == ToDatetime(r.assignedAt)
        effective_answered == CombineFirst(answered, assigned_detail)
        start_time == CombineFirst(queued, created)
    IN  [id |-> r.id,
         createdAt |-> r.createdAt,
         queuedAt |-> r.queuedAt,
         assigned_at |-> assigned_plain,
         answeredAt |-> answered,
         closedAt |-> closed,
         assignedAt |-> r.assignedAt,
         reason |-> r.reason,
         CallDurationSec |-> IF primary # {} THEN primary
                             ELSE Diff(closed, assigned_plain),
         AnsweredWithin1Min |-> within_1m,
         TakenFromQueue |-> assignment_reason_lower = "queue",
         TakenFromForward |-> assignment_reason_lower = "forward",
         RejectedOrForwarded |->
             \/ answered = None
             \/ assignment_reason_lower \in {"forward", "rejected"},
         CallType |-> call_type,
         Binnen1MinFair |-> (\E f \in fair : f <= 60) /\ call_type = "direct",
         FairTTASeconds |-> Diff(effective_answered, start_time)]

ComputeColumns(rs) == [i \in DOMAIN rs |-> ComputeRow(rs[i])]

\* Lines 467-530.  export is the frame df_all, of which conversations_ytd.csv
\* holds the required columns.
Finish ==
    /\ pc = "after_loop"
    /\ pc' = "done"
    /\ IF ~write_single
         THEN outcome' = "daily" /\ UNCHANGED <<export, removed>>
         ELSE IF all_rows = <<>>
         THEN outcome' = "no_conversations" /\ UNCHANGED <<export, removed>>
         ELSE /\ outcome' = "summary"
              /\ removed' = Len(all_rows) - Len(DropDuplicates(all_rows))
              /\ export' = IF single_file
                           THEN ComputeColumns(DropDuplicates(all_rows))
                           ELSE export
    /\ UNCHANGED <<error, config, detvars, genvars, fetchvars, rows_raw, rows, idx,
                   all_rows, det_last, daily_files, processed, requested, body,
                   gave_up, pager>>

Next ==
    \/ DetermineRange
    \/ ForWindow
    \/ FetchConnError
    \/ Fetch200
    \/ Fetch429
    \/ Fetch5xx
    \/ FetchOther
    \/ ProcessRows
    \/ DetailSkip
    \/ DetailNone
    \/ DetailRaise
    \/ DetailEnrich
    \/ WindowEnd
    \/ Finish

Spec == Init /\ [][Next]_vars

\* The program is one thread that runs to its end: a step that is possible
\* is taken.
FairSpec == Spec /\ WF_vars(Next)

\* ------------------------------------- export_dixa_prev_month_exports.py
\* fetch_exports: every exception of the request or of data.get is caught
\* and becomes the empty list.
PrevParseBody(b) == IF ParseBody(b).t = "raise" THEN EmptyList ELSE ParseBody(b)

PrevOnConnError == pc' = "p_returned" /\ rows_raw' = EmptyList /\ UNCHANGED error

PrevFetchConnError ==
    /\ pc = "p_fetch"
    /\ Request("conn")
    /\ PrevOnConnError
    /\ UNCHANGED <<config, detvars, genvars, delay, tries, sleeps, rowvars, processed,
                   body, outcome, removed, gave_up, pager>>

PrevFetchNon200 ==
    /\ pc = "p_fetch"
    /\ \E st \in {"429", "5xx", "4xx"} : Request(st)
    /\ pc' = "p_returned"
    /\ rows_raw' = EmptyList
    /\ UNCHANGED <<error, config, detvars, genvars, delay, tries, sleeps, rowvars,
                   processed, body, outcome, removed, gave_up, pager>>

PrevFetch200 ==
    /\ pc = "p_fetch"
    /\ \E b \in BulkBodies :
         /\ Request("200")
         /\ body' = b
         /\ rows_raw' = PrevParseBody(b)
    /\ pc' = "p_returned"
    /\ UNCHANGED <<error, config, detvars, genvars, delay, tries, sleeps, rowvars,
                   processed, outcome, removed, gave_up, pager>>

\* main line 217 (len of the result) and build_rows lines 128-136; every
\* record of the synthetic backend is a telephone conversation.
PrevStartBuild ==
    /\ pc = "p_returned"
    /\ IF rows_raw.t \in {"None", "int"}
         THEN Raise("TypeError") /\ UNCHANGED <<rows, idx>>
         ELSE IF rows_raw.t \in {"dict", "badlist"}
         THEN Raise("AttributeError") /\ UNCHANGED <<rows, idx>>
         ELSE pc' = "p_build" /\ rows' = <<>> /\ idx' = 1 /\ UNCHANGED error
    /\ UNCHANGED <<config, detvars, genvars, fetchvars, rows_raw, all_rows, det_last,
                   daily_files, export, processed, requested, body, outcome, removed, gave_up, pager>>

\* calculate_metrics_from_ms and the row of lines 179-196, before enrichment.
PrevRow(rec) ==
    LET from_queue == rec.queued_at # None /\ rec.assigned_at # None
        from_forward == rec.queued_at = None /\ rec.assigned_at # None
    IN  [id |-> rec.id,
         createdAt |-> MsToIso(rec.created_at),
         queuedAt |-> NoKey,
         answeredAt |-> MsToIso(rec.assigned_at),
         closedAt |-> MsToIso(rec.closed_at),
         assignedAt |-> NoKey,
         reason |-> IF from_queue THEN "queue"
                    ELSE IF from_forward THEN "forward" ELSE "None",
         AnsweredWithin1Min |-> /\ rec.created_at \notin {None, 0}
                                /\ rec.assigned_at \notin {None, 0}
                                /\ rec.assigned_at - rec.created_at <= 60000,
         TakenFromQueue |-> from_queue,
         TakenFromForward |-> from_forward,
         RejectedOrForwarded |-> rec.assigned_at = None]

\* Lines 164-175 on the row.
PrevEnrich(r, d) ==
    [r EXCEPT !.answeredAt = IF d.answeredAt # None THEN d.answeredAt ELSE @,
              !.reason = IF d.assignment = "dict" /\ d.reason # "None"
                           THEN d.reason ELSE @]

\* One iteration of the loop of build_rows, lines 138-204.
PrevBuildRow ==
    /\ pc = "p_build"
    /\ idx <= Len(rows_raw.v)
    /\ LET rec == rows_raw.v[idx] IN
       \/ /\ rec.id = 0
          /\ det_last' = "skipped"
          /\ rows' = Append(rows, PrevRow(rec))
          /\ idx' = idx + 1
          /\ det_sleep' = DetailDelayMs
          /\ UNCHANGED <<pc, error, requested, det_log, detail>>
       \/ /\ rec.id # 0
          /\ requested' = TRUE
          /\ det_log' = Append(det_log, rec.id)
          /\ \/ /\ \E o \in DetailNoneOutcomes : det_last' = o
                /\ rows' = Append(rows, PrevRow(rec))
                /\ idx' = idx + 1
                /\ det_sleep' = DetailDelayMs
                /\ detail' = NoDetail
                /\ UNCHANGED <<pc, error>>
             \/ /\ \E d \in {x \in DetailData : x.assignment # "nondict"} :
                      /\ rows' = Append(rows, PrevEnrich(PrevRow(rec), d))
                      /\ detail' = d
                /\ det_last' = "enriched"
                /\ idx' = idx + 1
                /\ det_sleep' = DetailDelayMs
                /\ UNCHANGED <<pc, error>>
             \/ /\ det_last' \in {"data_scalar", "assignment_nondict"}
                /\ Raise("AttributeError")
                /\ det_sleep' = 0
                /\ detail' = NoDetail
                /\ UNCHANGED <<rows, idx>>
    /\ UNCHANGED <<config, genvars, fetchvars, rows_raw, all_rows, daily_files,
                   export, processed, body, outcome, removed, gave_up, pager>>

\* main lines 219-246.
PrevFinish ==
    /\ pc = "p_build"
    /\ idx > Len(rows_raw.v)
    /\ pc' = "done"
    /\ IF rows = <<>>
         THEN outcome' = "no_conversations" /\ UNCHANGED export
         ELSE outcome' = "summary" /\ export' = rows
    /\ UNCHANGED <<error, config, detvars, genvars, fetchvars, rows_raw, rows, idx,
                   all_rows, det_last, daily_files, processed, requested, body,
                   removed, gave_up, pager>>

InitPrev ==
    /\ pc = "p_fetch"
    /\ BASE_DELAY = DefaultBaseDelay
    /\ WINDOW_DAYS = 1
    /\ start_d \in RunDays /\ end_d \in RunDays
    /\ write_daily = FALSE /\ single_file = TRUE
    /\ InitCommon

NextPrev ==
    \/ PrevFetchConnError
    \/ PrevFetchNon200
    \/ PrevFetch200
    \/ PrevStartBuild
    \/ PrevBuildRow
    \/ PrevFinish

SpecPrev == InitPrev /\ [][NextPrev]_vars

\* ------------------------------------------------- one record, end to end
\* map_row, the merge of the detail and compute_columns (and the row of
\* build_rows) applied to one bulk record drawn from MetricRecs.

\* created 1.000 s or 1.999 s; answered 60.000 s, 60.001 s or 61.000 s after
\* the first of them
MetricRecs ==
    {[id |-> 1, created_at |-> c, queued_at |-> q, assigned_at |-> a,
      closed_at |-> cl] :
        c \in {None, 1000, 1999}, q \in {None, 2000},
        a \in {None, 61000, 61001, 62000}, cl \in {None, 90000}}

MetricReasons == {"queue", "QUEUE", "forward", "Forward", "rejected", "None"}

MetricDetails ==
    {[answeredAt |-> a, assignment |-> "dict", reason |-> rs, assignedAt |-> t] :
        a \in {None, 31}, rs \in MetricReasons, t \in {None, 29}}
    \cup {[answeredAt |-> a, assignment |-> "absent", reason |-> "None",
           assignedAt |-> None] : a \in {None, 31}}

InitRow ==
    /\ error = ""
    /\ gen = "new" /\ cur = None /\ w_start = None /\ w_end = None
    /\ windows = <<>>
    /\ delay = None /\ tries = 0 /\ nreq = 0 /\ sleeps = <<>> /\ last_status = ""
    /\ rows = <<>> /\ idx = 0 /\ all_rows = <<>> /\ processed = 0
    /\ requested = FALSE /\ det_last = "" /\ outcome = ""
    /\ daily_files = <<>> /\ export = <<>> /\ body = NoBody
    /\ det_log = <<>> /\ det_sleep = None /\ detail = NoDetail
    /\ removed = None /\ gave_up = FALSE
    /\ pager = NoPager
    /\ BASE_DELAY = DefaultBaseDelay
    /\ start_d = 0 /\ end_d = 0 /\ WINDOW_DAYS = 1
    /\ write_daily = FALSE /\ single_file = TRUE
    /\ \E rec \in MetricRecs : rows_raw = [t |-> "list", v |-> <<rec>>]
    /\ pc \in {"r_map", "q_row"}

\* rows = [map_row(x) for x in rows_raw] (line 428)
RowMap ==
    /\ pc = "r_map"
    /\ rows' = <<MapRow(rows_raw.v[1])>>
    /\ idx' = 1
    /\ pc' = "r_detail"
    /\ UNCHANGED <<error, config, detvars, genvars, fetchvars, rows_raw, all_rows,
                   det_last, daily_files, export, processed, requested, body,
                   outcome, removed, gave_up, pager>>

\* lines 438-452 with a detail that enriches
RowEnrich ==
    /\ pc = "r_detail"
    /\ \E d \in MetricDetails :
          /\ rows' = [rows EXCEPT ![idx] = Enrich(@, d)]
          /\ detail' = d
    /\ det_last' = "enriched"
    /\ requested' = TRUE
    /\ det_log' = Append(det_log, rows[idx].id)
    /\ det_sleep' = DetailDelayMs
    /\ pc' = "r_compute"
    /\ UNCHANGED <<error, config, genvars, fetchvars, rows_raw, idx, all_rows,
                   daily_files, export, processed, body, outcome, removed, gave_up, pager>>

\* lines 438-443 with a lookup that returned nothing
RowNoEnrich ==
    /\ pc = "r_detail"
    /\ rows' = [rows EXCEPT ![idx] = NoEnrichment(@)]
    /\ det_last' = "non200"
    /\ requested' = TRUE
    /\ det_log' = Append(det_log, rows[idx].id)
    /\ det_sleep' = 0
    /\ pc' = "r_compute"
    /\ UNCHANGED <<error, config, detail, genvars, fetchvars, rows_raw, idx,
                   all_rows, daily_files, export, processed, body, outcome, removed, gave_up, pager>>

\* df = compute_columns(df) (line 484)
RowCompute ==
    /\ pc = "r_compute"
    /\ export' = ComputeColumns(rows)
    /\ pc' = "r_done"
    /\ UNCHANGED <<error, config, detvars, genvars, fetchvars, rows_raw, rows, idx,
                   all_rows, det_last, daily_files, processed, requested, body,
                   outcome, removed, gave_up, pager>>

\* build_rows, lines 138-160 and 179-196: the row before enrichment
PrevRowMap ==
    /\ pc = "q_row"
    /\ rows' = <<PrevRow(rows_raw.v[1])>>
    /\ idx' = 1
    /\ pc' = "q_detail"
    /\ UNCHANGED <<error, config, detvars, genvars, fetchvars, rows_raw, all_rows,
                   det_last, daily_files, export, processed, requested, body,
                   outcome, removed, gave_up, pager>>

\* build_rows, lines 162-177 and 204, with a detail that enriches
PrevRowEnrich ==
    /\ pc = "q_detail"
    /\ \E d \in MetricDetails :
          /\ rows' = [rows EXCEPT ![idx] = PrevEnrich(@, d)]
          /\ detail' = d
    /\ det_last' = "enriched"
    /\ requested' = TRUE
    /\ det_log' = Append(det_log, rows[idx].id)
    /\ det_sleep' = DetailDelayMs
    /\ pc' = "q_write"
    /\ UNCHANGED <<error, config, genvars, fetchvars, rows_raw, idx, all_rows,
                   daily_files, export, processed, body, outcome, removed, gave_up, pager>>

\* build_rows, lines 162-163 and 204, with a lookup that returned nothing
PrevRowNoEnrich ==
    /\ pc = "q_detail"
    /\ det_last' = "non200"
    /\ requested' = TRUE
    /\ det_log' = Append(det_log, rows[idx].id)
    /\ det_sleep' = DetailDelayMs
    /\ pc' = "q_write"
    /\ UNCHANGED <<error, config, detail, genvars, fetchvars, rows_raw, rows, idx,
                   all_rows, daily_files, export, processed, body, outcome, removed, gave_up, pager>>

\* main of the previous-month program, lines 226-232: the rows are written
\* as build_rows made them
PrevRowWrite ==
    /\ pc = "q_write"
    /\ export' = rows
    /\ pc' = "q_done"
    /\ UNCHANGED <<error, config, detvars, genvars, fetchvars, rows_raw, rows, idx,
                   all_rows, det_last, daily_files, processed, requested, body,
                   outcome, removed, gave_up, pager>>

NextRow ==
    \/ RowMap
    \/ RowEnrich
    \/ RowNoEnrich
    \/ RowCompute
    \/ PrevRowMap
    \/ PrevRowEnrich
    \/ PrevRowNoEnrich
    \/ PrevRowWrite

SpecRow == InitRow /\ [][NextRow]_vars

\* ---------------------------------------- paginator of the search endpoint
\* Section 4.3 of the specification; the two export programs modelled
\* above fetch through the bulk endpoint and hold no paginator.  The page size, 200 there, is PageSize here.
PageSize == 2
\* createdAt values of the synthetic backend: 1 .. MaxStamp
MaxStamp == 4

\* A backend holds 0, 1 or 2 records for every createdAt value.
Backends == [1 .. MaxStamp -> 0 .. 2]

\* the createdAt values of the records with createdAt > c, ascending
Matching(b, c) ==
    LET F[t \in 0 .. MaxStamp] ==
            IF t = 0 THEN <<>>
            ELSE F[t - 1] \o (IF t > c THEN [i \in 1 .. b[t] |-> t] ELSE <<>>)
    IN  F[MaxStamp]

\* the answer to a request constrained to createdAt > c: at most PageSize
\* records, ascending; a backend that is not stamped sends them without
\* createdAt
PageOf(b, stamped, c) ==
    LET m == Matching(b, c)
        n == Min(PageSize, Len(m))
    IN  [i \in 1 .. n |-> IF stamped THEN m[i] ELSE None]

\* variant: the cursor is taken from the first record of the page
LastSeen_First(page) == page[1]

\* last_seen_createdAt: the maximum createdAt of the page
LastSeen(page) ==
    CHOOSE t \in {page[i] : i \in DOMAIN page} :
        \A i \in DOMAIN page : page[i] <= t

\* termination conditions in order: (a) the page is empty, (b) it is
\* shorter than the page size; also a page without any timestamp
PageEnds(page) ==
    \/ page = <<>>
    \/ Len(page) < PageSize
    \/ \A i \in DOMAIN page : page[i] = None

InitPage ==
    /\ error = ""
    /\ gen = "new" /\ cur = None /\ w_start = None /\ w_end = None
    /\ windows = <<>>
    /\ delay = None /\ tries = 0 /\ nreq = 0 /\ sleeps = <<>> /\ last_status = ""
    /\ rows_raw = NoBody
    /\ rows = <<>> /\ idx = 0 /\ all_rows = <<>> /\ processed = 0
    /\ requested = FALSE /\ det_last = "" /\ outcome = ""
    /\ daily_files = <<>> /\ export = <<>> /\ body = NoBody
    /\ det_log = <<>> /\ det_sleep = None /\ detail = NoDetail
    /\ removed = None /\ gave_up = FALSE
    /\ pc = "page"
    /\ BASE_DELAY = DefaultBaseDelay
    /\ start_d = 0 /\ end_d = 0 /\ WINDOW_DAYS = 1
    /\ write_daily = FALSE /\ single_file = TRUE
    /\ \E b \in Backends, st \in BOOLEAN :
          pager = [NoPager EXCEPT !.backend = b, !.stamped = st]

\* one request of the paginator and what it does with the page
PageFetch ==
    /\ pc = "page"
    /\ ~pager.done
    /\ LET page == PageOf(pager.backend, pager.stamped, pager.cursor)
       IN  pager' = [pager EXCEPT
                        !.page = page,
                        !.requests = @ + 1,
                        !.out = @ \o page,
                        !.done = PageEnds(page),
                        !.cursor = IF PageEnds(page) THEN @ ELSE LastSeen(page)]
    /\ UNCHANGED <<pc, error, config, detvars, genvars, fetchvars, rows_raw, rowvars,
                   processed, requested, body, outcome, removed, gave_up>>

NextPage == PageFetch

SpecPage == InitPage /\ [][NextPage]_vars

\* The paginator is a loop of blocking requests.
FairSpecPage == SpecPage /\ WF_vars(NextPage)

\* ================================================================ claims

\* C1: for start <= end and a window size >= 1 the windows date_windows has
\* yielded tile [start, end]: the first starts at start, each has
\* start <= end, each next one starts the day after the previous one's end,
\* starts increase strictly, and once the generator is exhausted the last
\* window ends at end.
C1_WindowsTile ==
    (start_d <= end_d /\ WINDOW_DAYS >= 1) =>
        /\ windows # <<>> => windows[1][1] = start_d
        /\ \A i \in DOMAIN windows :
              /\ windows[i][1] <= windows[i][2]
              /\ windows[i][2] <= end_d
              /\ i > 1 => /\ windows[i][1] = windows[i - 1][2] + 1
                          /\ windows[i][1] > windows[i - 1][1]
        /\ gen = "done" => /\ windows # <<>>
                           /\ windows[Len(windows)][2] = end_d

\* a plan of three windows or more whose last window is cut short by end
C1_Witness ==
    /\ pc = "plan" /\ gen = "done" /\ start_d <= end_d
    /\ Len(windows) >= 3
    /\ windows[Len(windows)][2] - windows[Len(windows)][1] + 1 < WINDOW_DAYS

\* C2: date_windows itself fails on a range whose end is before its start,
\* rather than yielding an empty sequence of windows.
C2_PlannerRejectsInvalidRange ==
    (pc = "plan" /\ end_d < start_d) =>
        ~(gen = "done" /\ windows = <<>> /\ error = "")

\* Every response the current call received was a 429.
All429 ==
    /\ nreq >= 1
    /\ Len(sleeps) = nreq
    /\ \A i \in DOMAIN sleeps : sleeps[i].after = "429"

C3_State ==
    All429 => /\ error = ""
              /\ nreq <= MaxRetries
              /\ pc = (IF nreq = MaxRetries THEN "returned" ELSE "fetch")
              /\ pc = "returned" => rows_raw = EmptyList

C3_Step ==
    /\ (All429 /\ pc = "returned") =>
          /\ pc' = "for" /\ error' = ""
          /\ all_rows' = all_rows /\ daily_files' = daily_files
    /\ (pc = "for" /\ gen = "yielded" /\ w_end < end_d) =>
          /\ pc' = "fetch" /\ w_start' = w_end + 1 /\ nreq' = 0

\* C3: a window whose every attempt is answered 429 is given up after
\* MaxRetries requests with zero records, the run does not fail, and the
\* driver goes on to fetch the next window of the plan.
C3_GiveUpAfterMaxRetries == [](C3_State) /\ [][C3_Step]_vars

\* the first of two windows given up after six 429 answers
C3_Witness ==
    /\ All429 /\ pc = "returned" /\ nreq = MaxRetries
    /\ processed = 1 /\ w_end < end_d

\* The current call met only 429 answers without a usable Retry-After
\* header and then a 200 answer carrying a list of records.
SuccessAfter429 ==
    /\ pc = "returned" /\ last_status = "200"
    /\ body.t \in {"list", "obj_data_list"}
    /\ \A i \in DOMAIN sleeps : sleeps[i].after = "429" /\ sleeps[i].src = "delay"

BackoffShape ==
    /\ Len(sleeps) = nreq - 1
    /\ \A i \in DOMAIN sleeps :
          /\ sleeps[i].wait >= BASE_DELAY
          /\ sleeps[i].wait <= DelayCap
          /\ i > 1 => /\ sleeps[i].wait >= sleeps[i - 1].wait
                      /\ sleeps[i].wait = Min((sleeps[i - 1].wait * 3) \div 2, DelayCap)
    /\ rows_raw = [t |-> "list", v |-> body.v]

\* C4 as stated: k 429 answers without Retry-After and then 200 give exactly
\* k sleeps, non-decreasing, each between the base delay and 60 s and 1.5
\* times the previous one up to the cap, and the parsed body is returned,
\* for every configured base delay.
C4_BackoffEveryBaseDelay == SuccessAfter429 => BackoffShape

\* C4 amended: the same for every configured base delay of at most 60 s.
C4_BackoffBaseDelayUpToCap ==
    (SuccessAfter429 /\ BASE_DELAY <= DelayCap) => BackoffShape

\* base delay 30 s: waits of 30 s, 45 s and 60 s, then the records
C4_Witness ==
    /\ SuccessAfter429 /\ BASE_DELAY = Sec(30)
    /\ Len(sleeps) = 3 /\ sleeps[3].wait = DelayCap
    /\ rows_raw.v # <<>>

\* C5: every sleep after a 5xx answer lasts exactly the base delay.
C5_ServerErrorSleepsBaseDelay ==
    \A i \in DOMAIN sleeps :
        sleeps[i].after = "5xx" => sleeps[i].wait = BASE_DELAY

\* The current call has just been abandoned on a status that is neither 200,
\* 429 nor 5xx, or on a 200 answer whose body is not JSON.
Abandoned ==
    /\ pc = "returned"
    /\ \/ last_status = "4xx"
       \/ (last_status = "200" /\ body.t = "notjson")

C6_State ==
    Abandoned => /\ rows_raw = EmptyList /\ error = ""
                 /\ Len(sleeps) = nreq - 1

C6_Step ==
    /\ (pc = "fetch" /\ Abandoned') => (sleeps' = sleeps /\ nreq' = nreq + 1)
    /\ Abandoned => /\ pc' = "for" /\ error' = ""
                    /\ requested' = requested
                    /\ all_rows' = all_rows /\ daily_files' = daily_files
    /\ (pc = "for" /\ pc' = "fetch" /\ windows # <<>>) => w_start' > w_end

\* C6: a status that is neither 200, 429 nor 5xx, or a 200 answer that is
\* not JSON, ends the window's fetch with zero records at once: no sleep,
\* no further request for that window, however many retries came before.
C6_AbandonWithoutRetry == [](C6_State) /\ [][C6_Step]_vars

\* a client error after five retried attempts
C6_Witness ==
    /\ Abandoned /\ last_status = "4xx"
    /\ Len(sleeps) = MaxRetries - 1

\* C7: a connection error of a bulk request is fatal only after three
\* failed attempts of that request.
C7_ConnectionErrorRetried ==
    error = "ConnectionError" => nreq - Len(sleeps) >= 3

\* C8: once a bulk request has failed on the connection the run is in a
\* failed state and has reported neither "no conversations" nor a summary.
C8_ConnectionFailureNotSwallowed ==
    last_status = "conn" =>
        /\ pc = "fatal" /\ error = "ConnectionError"
        /\ outcome = ""

MalformedBodies == {"notjson", "scalar", "list_of_scalars", "obj_data_null",
                    "obj_data_obj", "obj_data_scalar"}

\* C9: a 200 answer of the bulk endpoint with a malformed body never makes
\* the run fail.
C9_MalformedBodyNeverFatal ==
    (last_status = "200" /\ body.t \in MalformedBodies) => error = ""

\* C10: whatever a detail lookup meets, the run does not fail.
C10_EnrichmentNeverFatal ==
    det_last \in DetailNoneOutcomes \cup {"data_scalar"} => error = ""

\* C11 (as claimed): over a whole run no identifier is asked of the detail
\* endpoint more than once.
C11_OncePerIdentifier ==
    \A i, j \in DOMAIN det_log : i # j => det_log[i] # det_log[j]

HasId(i) == i # 0

\* rows of the run that have passed the enrichment loop, in processing order
\* (all_rows collects the windows when a single file is written)
Handled ==
    all_rows \o (IF pc = "detail" THEN SubSeq(rows, 1, idx - 1) ELSE <<>>)

C11_State ==
    (write_single /\ error = "") =>
        det_log = SelectSeq(Ids(Handled), HasId)

C11_Step ==
    IF InDetail /\ rows[idx].id # 0
    THEN /\ det_log' = Append(det_log, rows[idx].id)
         /\ idx' = idx + 1 \/ pc' = "fatal"
    ELSE det_log' = det_log

\* C11 (amended): the detail endpoint is requested exactly once for every
\* row with an identifier that reaches enrichment, in processing order, so
\* once per occurrence of an identifier; the lookup of a row is never
\* repeated, whatever its result.
C11_OncePerRow == [](C11_State) /\ [][C11_Step]_vars

\* the second window returned the identifier of the first again, and its
\* lookup, which failed, was issued once more
C11_Witness ==
    /\ Len(windows) = 2 /\ Len(all_rows) = 1 /\ all_rows[1].id = 1
    /\ pc = "detail" /\ idx = 2 /\ rows[1].id = 1
    /\ det_last \in DetailNoneOutcomes
    /\ det_log = <<1, 1>>

\* C12: when a detail lookup is about to be issued and another lookup went
\* before it in the same window, the 0.1 s delay has elapsed in between.
C12_DelayAfterEveryLookup ==
    (InDetail /\ rows[idx].id # 0 /\ det_sleep # None) =>
        det_sleep = DetailDelayMs

\* the bulk record, and the row finally written for it
Rec == rows_raw.v[1]
Out == export[1]

\* C13: after a successful lookup the row has the answered timestamp, the
\* assignment reason and the assignment timestamp of the detail wherever the
\* detail carries them and the value it had before elsewhere; identifier,
\* created, queued and closed are as before.  (direction and channel are
\* copied through by both programs and not part of the rows here.)
C13_DetailFieldsOverride ==
    (pc \in {"r_compute", "q_write"} /\ det_last = "enriched") =>
        LET b == IF pc = "r_compute" THEN MapRow(Rec) ELSE PrevRow(Rec)
            r == rows[1]
            hasReason == detail.assignment = "dict" /\ detail.reason # "None"
            hasAssigned == detail.assignment = "dict" /\ detail.assignedAt # None
        IN  /\ r.answeredAt = IF detail.answeredAt # None
                                THEN detail.answeredAt ELSE b.answeredAt
            /\ FillNa(r.reason) = IF hasReason THEN detail.reason
                                  ELSE FillNa(b.reason)
            /\ ToDatetime(r.assignedAt) = IF hasAssigned THEN detail.assignedAt
                                          ELSE ToDatetime(b.assignedAt)
            /\ r.id = b.id /\ r.createdAt = b.createdAt
            /\ r.queuedAt = b.queuedAt /\ r.closedAt = b.closedAt

\* the answered instant of the final record in milliseconds: the detail's
\* when the lookup delivered one, the bulk one otherwise
AnsweredMs ==
    IF det_last = "enriched" /\ detail.answeredAt # None
    THEN 1000 * detail.answeredAt ELSE Rec.assigned_at

\* C15: the answered-within-threshold value written for a record is true
\* exactly when created and answered are both present and at most 60000 ms
\* apart.
C15_WithinThresholdByMilliseconds ==
    pc = "r_done" =>
        (Out.AnsweredWithin1Min <=>
            /\ Rec.created_at # None /\ AnsweredMs # None
            /\ AnsweredMs - Rec.created_at <= 60000)

\* C16: in the row written, taken-from-queue is true exactly when queued and
\* answered are both present, taken-from-forward exactly when queued is
\* absent and answered present.
C16_TakenFlagsByTimestamps ==
    pc = "r_done" =>
        /\ Out.TakenFromQueue <=> (Out.queuedAt # None /\ Out.answeredAt # None)
        /\ Out.TakenFromForward <=> (Out.queuedAt = None /\ Out.answeredAt # None)

\* the row the previous-month program writes for the same record and detail
PrevOut ==
    IF det_last = "enriched" THEN PrevEnrich(PrevRow(Rec), detail)
    ELSE PrevRow(Rec)

\* C17: in the row either program writes, rejected-or-forwarded is true
\* exactly when answered is absent or taken-from-forward is true, and the
\* refresh program writes the value the previous-month program writes.
C17_RejectedOrForwarded ==
    /\ pc \in {"r_done", "q_done"} =>
          (Out.RejectedOrForwarded <=>
              (ToDatetime(Out.answeredAt) = None \/ Out.TakenFromForward))
    /\ pc = "r_done" =>
          Out.RejectedOrForwarded = PrevOut.RejectedOrForwarded

\* the bucket of an assignment reason, ignoring case
Bucket(reason) ==
    IF reason \in {"queue", "QUEUE"} THEN "queue"
    ELSE IF reason \in {"forward", "Forward"} THEN "forward"
    ELSE "direct"

\* C18: the call-type written is the bucket of the assignment reason
\* ignoring case ('direct' for a missing or a 'rejected' reason), one of
\* the three; taken-from-queue and taken-from-forward are never both true
\* and each is true exactly for its call-type.
C18_CallTypeBuckets ==
    pc = "r_done" =>
        /\ Out.CallType = Bucket(Out.reason)
        /\ Out.CallType \in {"queue", "forward", "direct"}
        /\ ~(Out.TakenFromQueue /\ Out.TakenFromForward)
        /\ Out.TakenFromQueue <=> Out.CallType = "queue"
        /\ Out.TakenFromForward <=> Out.CallType = "forward"

\* a record that was never queued, enriched with the reason "QUEUE"
C18_Witness ==
    /\ pc = "r_done" /\ det_last = "enriched"
    /\ Out.reason = "QUEUE" /\ Out.queuedAt = None /\ Out.answeredAt # None
    /\ Out.CallType = "queue" /\ Out.TakenFromQueue

\* C19: for a record with a created timestamp, time-to-answer is (answered,
\* or the detail's assignment timestamp when answered is absent) minus
\* (queued, or created), unset exactly when neither of the former exists;
\* call-duration is closed minus answered, or closed minus the assignment
\* timestamp when answered is absent.
C19_FairTimeAndDuration ==
    (pc = "r_done" /\ Rec.created_at # None) =>
        LET ans == Out.answeredAt
            asg == ToDatetime(Out.assignedAt)
            eff == IF ans # None THEN ans ELSE asg
            start == IF Out.queuedAt # None THEN Out.queuedAt ELSE Out.createdAt
        IN  /\ Out.FairTTASeconds = IF eff = None THEN {} ELSE {eff - start}
            /\ Out.closedAt # None =>
                  Out.CallDurationSec =
                      IF ans # None THEN {Out.closedAt - ans}
                      ELSE IF asg # None THEN {Out.closedAt - asg}
                      ELSE {}

\* index of the first row of all_rows with the identifier i
FirstIndex(i) ==
    CHOOSE k \in DOMAIN all_rows :
        /\ all_rows[k].id = i
        /\ \A j \in 1 .. k - 1 : all_rows[j].id # i

\* the exported row x holds what the accumulated row r held
SameRecord(x, r) ==
    /\ x.id = r.id /\ x.createdAt = r.createdAt /\ x.queuedAt = r.queuedAt
    /\ x.answeredAt = r.answeredAt /\ x.closedAt = r.closedAt
    /\ x.reason = r.reason /\ x.assignedAt = r.assignedAt

\* C14: in the single-file export every identifier of the accumulated rows
\* has exactly one row, the first of its occurrences in processing order;
\* the rows kept are in their original order, and the removed count is the
\* number of rows accumulated minus the number kept.
C14_DedupFirstSeen ==
    (pc = "done" /\ outcome = "summary") =>
        /\ \A k, l \in DOMAIN export : k # l => export[k].id # export[l].id
        /\ {export[k].id : k \in DOMAIN export} =
              {all_rows[k].id : k \in DOMAIN all_rows}
        /\ \A k \in DOMAIN export :
              SameRecord(export[k], all_rows[FirstIndex(export[k].id)])
        /\ \A k, l \in DOMAIN export :
              k < l => FirstIndex(export[k].id) < FirstIndex(export[l].id)
        /\ removed = Len(all_rows) - Len(export)

\* two windows gave three rows; identifier 1 came twice, enriched
\* differently, with identifier 2 after its first occurrence
C14_Witness ==
    /\ pc = "done" /\ outcome = "summary"
    /\ Len(all_rows) = 3 /\ Len(export) = 2 /\ removed = 1
    /\ all_rows[1].id = 1 /\ all_rows[2].id = 2 /\ all_rows[3].id = 1
    /\ all_rows[1] # all_rows[3]

\* C20 (as claimed): a run that ends normally has printed the summary and
\* written an export, whatever the windows contributed and in every mode.
C20_SummaryAndExportAlways ==
    pc = "done" =>
        /\ outcome = "summary"
        /\ export # <<>> \/ daily_files # <<>>

\* what a run that ended normally has printed and written
C20_State ==
    /\ pc = "done" =>
          /\ error = ""
          /\ outcome = IF ~write_single THEN "daily"
                       ELSE IF all_rows = <<>> THEN "no_conversations"
                       ELSE "summary"
    /\ outcome = "summary" => export # <<>> /\ Len(export) <= Len(all_rows)
    /\ outcome \in {"no_conversations", "daily"} => export = <<>>

\* the run fails only on an invalid range, a connection failure of a bulk
\* request, or a JSON answer of an unexpected shape
C20_Step ==
    pc' = "fatal" =>
        \/ pc = "cli"
        \/ pc = "fetch" /\ last_status' = "conn"
        \/ pc = "fetch" /\ last_status' = "200" /\ body'.t = "scalar"
        \/ pc = "returned" /\ rows_raw.t \in {"badlist", "dict", "int"}
        \/ pc = "detail" /\ det_last' \in {"data_scalar", "assignment_nondict"}

\* C20 (amended): a run whose remote failures are 429, 5xx, client errors
\* and non-JSON bodies never fails and always terminates; in single-file
\* mode it ends with the summary and the export when some window
\* contributed rows and with "No conversations found", no summary and no
\* export, when none did; in daily-files-only mode it ends without summary.
C20_TransientRunCompletes ==
    /\ [](C20_State)
    /\ [][C20_Step]_vars
    /\ <>(pc \in {"done", "fatal"})

\* a run over two windows of which at least one was abandoned and none
\* contributed a row, ended normally
C20_Witness ==
    /\ pc = "done" /\ error = "" /\ gave_up
    /\ Len(windows) = 2 /\ all_rows = <<>>
    /\ single_file /\ outcome = "no_conversations"

\* where the pipeline stands between two requests
C21_State ==
    /\ \A i, j \in DOMAIN windows : i < j => windows[i][2] < windows[j][1]
    /\ pc \in {"fetch", "returned"} => rows = <<>> /\ idx = 0
    /\ pc = "detail" => nreq = 0 /\ tries = 0 /\ rows_raw = NoBody
    /\ nreq > 0 => pc \in {"fetch", "returned", "fatal"}

\* what a step that issues a request, or takes the next window, starts from
C21_Step ==
    /\ nreq' = nreq + 1 =>
          /\ pc = "fetch" /\ rows = <<>>
          /\ det_log' = det_log /\ windows' = windows
    /\ det_log' # det_log =>
          /\ InDetail /\ nreq = 0 /\ nreq' = 0
          /\ det_log' = Append(det_log, rows[idx].id)
          /\ idx' = idx + 1 \/ pc' = "fatal"
          /\ windows' = windows
    /\ (pc = "detail" /\ pc' = "for") => idx > Len(rows)
    /\ windows' # windows =>
          /\ pc = "for" /\ rows = <<>> /\ nreq = 0
          /\ nreq' = 0 /\ det_log' = det_log

\* C21: requests are issued one at a time in pipeline order: the windows
\* ascend; the bulk requests of a window are all made before its first
\* detail lookup; the lookups of a window follow its rows in order; the
\* next window is taken only after the last row of the current one; no
\* step issues more than one request.
C21_SequentialPipeline == [](C21_State) /\ [][C21_Step]_vars

\* the second window is at the lookup of its second
\* row; the first window had its lookups before
C21_Witness ==
    /\ Len(windows) = 2 /\ pc = "detail" /\ idx = 2 /\ Len(rows) = 2
    /\ Len(det_log) = 3 /\ Len(all_rows) = 2

\* the one counter of the call: every 429 and every 5xx answer so far
C23_State ==
    /\ nreq <= MaxRetries
    /\ tries = Len(sleeps)
    /\ \A i \in DOMAIN sleeps : sleeps[i].after \in {"429", "5xx"}
    /\ pc = "fetch" => nreq = tries /\ tries < MaxRetries

C23_Step == pc = "fetch" => nreq' = nreq + 1

\* C23: whatever the answers are, one call of fetch_exports_window ends
\* after at most MaxRetries requests; 429 and 5xx answers are counted
\* together, so mixing them allows no further attempt.
C23_BoundedAttempts ==
    /\ [](C23_State)
    /\ [][C23_Step]_vars
    /\ <>(pc # "fetch")

\* given up at the sixth request after a mix of 429 and 5xx answers
C23_Witness ==
    /\ pc = "returned" /\ nreq = MaxRetries /\ rows_raw = EmptyList
    /\ \E i, j \in DOMAIN sleeps :
          sleeps[i].after = "429" /\ sleeps[j].after = "5xx"

\* every createdAt value of the backend belongs to one record at most
StrictlyIncreasing == \A t \in 1 .. MaxStamp : pager.backend[t] <= 1

\* the paginator ends exactly at the first page that is empty, short or
\* without timestamp; the records it has collected are then the whole
\* backend when the createdAt values are strictly increasing and present
C22_State ==
    /\ pager.done <=> (pager.requests > 0 /\ PageEnds(pager.page))
    /\ pager.requests > 0 =>
          \/ pager.done
          \/ /\ Len(pager.page) = PageSize
             /\ \A i \in DOMAIN pager.page : pager.page[i] <= pager.cursor
             /\ \E i \in DOMAIN pager.page : pager.page[i] = pager.cursor
    /\ (pager.done /\ pager.stamped /\ StrictlyIncreasing) =>
          pager.out = Matching(pager.backend, 0)

\* a further page holds only records created after every record of the page
\* before it, and follows a full page only
C22_Step ==
    pager'.requests = pager.requests + 1 =>
        /\ ~pager.done
        /\ pager.requests > 0 =>
              /\ Len(pager.page) = PageSize
              /\ \A i \in DOMAIN pager.page, j \in DOMAIN pager'.page :
                    pager.page[i] < pager'.page[j]

\* C22: the paginator ends a window as soon as a page is empty, shorter
\* than the page size or without timestamp; after a full page it asks for
\* the records created strictly after the latest of that page, it does not
\* end before such a page, and with strictly increasing createdAt values
\* it ends with every record of the finite backend.
C22_PaginatorTerminates ==
    /\ [](C22_State)
    /\ [][C22_Step]_vars
    /\ <>(pager.done)

\* four records, one per createdAt value: two full pages and the empty
\* page that ends the window
C22_Witness ==
    /\ pager.done /\ pager.stamped /\ StrictlyIncreasing
    /\ pager.requests = 3 /\ pager.page = <<>>
    /\ Len(pager.out) = 2 * PageSize

\* C24: in every export that compute_columns makes from freshly built rows
\* Binnen1MinFair is true exactly when FairTTASeconds is at most 60 and
\* CallType is direct, and compute_columns applied once more to its own
\* output changes no column.
C24_FairFlagAndIdempotent ==
    pc = "r_done" =>
        /\ Out.Binnen1MinFair <=>
              /\ \E f \in Out.FairTTASeconds : f <= 60
              /\ Out.CallType = "direct"
        /\ ComputeColumns(export) = export

\* the lookup delivered an answered timestamp, which the row then carries
EnrichedAnswer == det_last = "enriched" /\ detail.answeredAt # None

\* C25: in the row either program writes, the metrics are those of the
\* timestamps the row finally has: whenever the lookup supplied the answered
\* timestamp, answered-within-threshold, taken-from-queue, taken-from-forward
\* and rejected-or-forwarded are the values of that timestamp, never those
\* of an absent or of the bulk one.
C25_MetricsFromFinalTimestamps ==
    (pc \in {"r_done", "q_done"} /\ EnrichedAnswer) =>
        /\ Out.answeredAt = detail.answeredAt
        /\ Out.AnsweredWithin1Min <=>
              /\ Rec.created_at # None
              /\ 1000 * detail.answeredAt - Rec.created_at <= 60000
        /\ Out.TakenFromQueue <=> Rec.queued_at # None
        /\ Out.TakenFromForward <=> Rec.queued_at = None
        /\ Out.RejectedOrForwarded <=> Out.TakenFromForward

\* C26: every file written holds at most one row per record identifier:
\* each per-window daily file, also when the answer of its window repeats
\* an identifier, and the single-file export.
C26_OneRowPerIdentifier ==
    /\ \A k \in DOMAIN daily_files :
          \A i, j \in DOMAIN daily_files[k] :
              daily_files[k][i] = daily_files[k][j] => i = j
    /\ \A i, j \in DOMAIN export : export[i].id = export[j].id => i = j

====
